---- MODULE Spec2Model ----
(***************************************************************************)
(* Model of todo.py (finedust/todo-desktop): the todo.txt line grammar     *)
(* (TODO_PATTERN), the normalising constructor TodoTask.__init__, the      *)
(* serializer make_todo, and the store operations get_tasks, list and add. *)
(*                                                                         *)
(* Text is modelled at character level: a line is a tuple of one-character *)
(* strings, so that the regular expression, str.capitalize, strftime and   *)
(* strptime are modelled by what they do to the characters.                *)
(***************************************************************************)
EXTENDS Integers, Sequences, FiniteSets, TLC

(***************************************************************************)
(* Characters.                                                             *)
(***************************************************************************)
Uppers ==
  << "A","B","C","D","E","F","G","H","I","J","K","L","M",
     "N","O","P","Q","R","S","T","U","V","W","X","Y","Z" >>

Lowers ==
  << "a","b","c","d","e","f","g","h","i","j","k","l","m",
     "n","o","p","q","r","s","t","u","v","w","x","y","z" >>

Digits ==
  << "0","1","2","3","4","5","6","7","8","9" >>

\* The ASCII characters from code point 32 to 95, in code point order.
Ascii ==
  << " ","!","\"","#","$","%","&","'","(",")","*","+",",","-",".","/",
     "0","1","2","3","4","5","6","7","8","9",":",";","<","=",">","?",
     "@","A","B","C","D","E","F","G","H","I","J","K","L","M","N","O",
     "P","Q","R","S","T","U","V","W","X","Y","Z","[","\\","]","^","_" >>

Range(f) ==
  {f[i] : i \in DOMAIN f}

IndexIn(s, c) ==
  CHOOSE i \in 1..Len(s) : s[i] = c

UpperSet ==
  Range(Uppers)

LowerSet ==
  Range(Lowers)

DigitSet ==
  Range(Digits)

\* The characters of the model: ASCII 32 to 95, a to z, tab and newline.
Chars ==
  Range(Ascii) \cup LowerSet \cup {"\t", "\n"}

IsUpper(c) ==
  c \in UpperSet

IsLower(c) ==
  c \in LowerSet

IsDigit(c) ==
  c \in DigitSet

\* Python's whitespace, as far as it can occur in the text of a line.
IsSpace(c) ==
  c \in {" ", "\t", "\n"}

\* Code point of each character: the order str comparison (sorted) uses.
OrdMap ==
  [c \in Chars |->
     IF c = "\t" THEN 9
     ELSE IF c = "\n" THEN 10
     ELSE IF c \in LowerSet THEN 96 + IndexIn(Lowers, c)
     ELSE 31 + IndexIn(Ascii, c)]

Ord(c) ==
  OrdMap[c]

DigitVal(c) ==
  Ord(c) - 48

UpperMap ==
  [c \in Chars |-> IF c \in LowerSet THEN Uppers[IndexIn(Lowers, c)] ELSE c]

LowerMap ==
  [c \in Chars |-> IF c \in UpperSet THEN Lowers[IndexIn(Uppers, c)] ELSE c]

UpperChar(c) ==
  UpperMap[c]

LowerChar(c) ==
  LowerMap[c]

\* str.upper and str.lower
StrUpper(s) ==
  [i \in 1..Len(s) |-> UpperChar(s[i])]

StrLower(s) ==
  [i \in 1..Len(s) |-> LowerChar(s[i])]

\* A capitalize that leaves the characters after the first as they are.
Capitalize_FirstOnly(s) ==
  [i \in 1..Len(s) |-> IF i = 1 THEN UpperChar(s[i]) ELSE s[i]]

\* str.capitalize: the first character upper-cased, EVERY other character
\* lower-cased.
Capitalize(s) ==
  [i \in 1..Len(s) |-> IF i = 1 THEN UpperChar(s[i]) ELSE LowerChar(s[i])]

\* str.strip: leading and trailing whitespace removed.
Strip(s) ==
  LET idx == {i \in 1..Len(s) : ~IsSpace(s[i])}
  IN  IF idx = {} THEN << >>
      ELSE LET lo == CHOOSE i \in idx : \A j \in idx : i <= j
               hi == CHOOSE i \in idx : \A j \in idx : j <= i
           IN  SubSeq(s, lo, hi)

\* str.startswith
StartsWith(s, lit) ==
  /\ Len(lit) <= Len(s)
  /\ SubSeq(s, 1, Len(lit)) = lit

\* str < str : lexicographic on code points, a proper prefix first.
StrLess(a, b) ==
  LET n    == IF Len(a) < Len(b) THEN Len(a) ELSE Len(b)
      diff == {i \in 1..n : a[i] # b[i]}
      k    == CHOOSE i \in diff : \A j \in diff : i <= j
  IN  IF diff = {} THEN Len(a) < Len(b) ELSE Ord(a[k]) < Ord(b[k])

\* The absent value of a field that holds a character or a word (None).
None ==
  "None"

(***************************************************************************)
(* Calendar dates (datetime at midnight) and the clock.                    *)
(***************************************************************************)
\* The absent date (None); year 0 is no date of the calendar.
NoDate ==
  [y |-> 0, m |-> 0, d |-> 0]

IsLeap(y) ==
  /\ y % 4 = 0
  /\ (y % 100 # 0 \/ y % 400 = 0)

DaysInMonth(y, m) ==
  IF m = 2 THEN (IF IsLeap(y) THEN 29 ELSE 28)
  ELSE IF m \in {4, 6, 9, 11} THEN 30 ELSE 31

RECURSIVE DaysBeforeMonth(_, _)
DaysBeforeMonth(y, m) ==
  IF m <= 1 THEN 0 ELSE DaysBeforeMonth(y, m - 1) + DaysInMonth(y, m - 1)

\* date.toordinal
Ordinal(dt) ==
  LET p == dt.y - 1
  IN  p * 365 + (p \div 4) - (p \div 100) + (p \div 400)
        + DaysBeforeMonth(dt.y, dt.m) + dt.d

\* What strptime accepts as a calendar date.
ValidDate(dt) ==
  /\ dt.y >= 1
  /\ dt.m \in 1..12
  /\ dt.d \in 1..DaysInMonth(dt.y, dt.m)

\* The numbers written in the ten characters dddd-dd-dd.
DateFields(s) ==
  [y |-> DigitVal(s[1]) * 1000 + DigitVal(s[2]) * 100
           + DigitVal(s[3]) * 10 + DigitVal(s[4]),
   m |-> DigitVal(s[6]) * 10 + DigitVal(s[7]),
   d |-> DigitVal(s[9]) * 10 + DigitVal(s[10])]

TwoDigits(n) ==
  << Digits[((n \div 10) % 10) + 1], Digits[(n % 10) + 1] >>

\* strftime("%y-%m-%d"): the year is written with TWO digits.
Strftime_y_m_d(dt) ==
  TwoDigits(dt.y % 100) \o << "-" >> \o TwoDigits(dt.m)
    \o << "-" >> \o TwoDigits(dt.d)

\* The day after a date.
NextDay(dt) ==
  IF dt.d < DaysInMonth(dt.y, dt.m) THEN [dt EXCEPT !.d = dt.d + 1]
  ELSE IF dt.m < 12 THEN [y |-> dt.y, m |-> dt.m + 1, d |-> 1]
  ELSE [y |-> dt.y + 1, m |-> 1, d |-> 1]

\* datetime.now() is [date, tod]: tod = 0 at midnight exactly, tod = 1 at any
\* later time of that day.  A parsed date is that day at midnight.
\* due_date < datetime.now()
DateBeforeNow(dt, nw) ==
  \/ Ordinal(dt) < Ordinal(nw.date)
  \/ (Ordinal(dt) = Ordinal(nw.date) /\ nw.tod > 0)

URGENT_TIME ==
  7

\* due_date - datetime.now() < URGENT_TIME
WithinUrgentTime(dt, nw) ==
  \/ Ordinal(dt) - Ordinal(nw.date) < URGENT_TIME
  \/ (Ordinal(dt) - Ordinal(nw.date) = URGENT_TIME /\ nw.tod > 0)

(***************************************************************************)
(* TODO_PATTERN: the regular expression, as re.match applies it (anchored  *)
(* at the start of the line, NOT at its end; greedy, with backtracking     *)
(* over the optional groups in front of the description).                  *)
(***************************************************************************)
MinOf(S) ==
  CHOOSE x \in S : \A y \in S : x <= y

MaxOf(S) ==
  CHOOSE x \in S : \A y \in S : y <= x

\* End of the longest run of characters of the class cs that starts at p
\* (p - 1 when the run is empty).
RunEnd(s, p, cs) ==
  LET bad == {i \in p..Len(s) : s[i] \notin cs}
  IN  IF p > Len(s) THEN p - 1
      ELSE IF bad = {} THEN Len(s) ELSE MinOf(bad) - 1

\* s has the literal lit at position p
LitAt(s, p, lit) ==
  /\ p + Len(lit) - 1 <= Len(s)
  /\ SubSeq(s, p, p + Len(lit) - 1) = lit

\* \d{4}\-\d{2}\-\d{2} at position p
DateAt(s, p) ==
  /\ p + 9 <= Len(s)
  /\ \A i \in {0, 1, 2, 3, 5, 6, 8, 9} : IsDigit(s[p + i])
  /\ s[p + 4] = "-"
  /\ s[p + 7] = "-"

\* [^\:\+\n]
IsTodoChar(c) ==
  c \notin {":", "+", "\n"}

\* [^\:\+\ ]
IsTodoLast(c) ==
  c \notin {":", "+", " "}

\* [^\s\#]
IsProjectChar(c) ==
  ~IsSpace(c) /\ c # "#"

\* [A-Z\_\d]
IsTagChar(c) ==
  IsUpper(c) \/ IsDigit(c) \/ c = "_"

\* The character classes as sets of the characters of the model.
TodoChars ==
  {c \in Chars : IsTodoChar(c)}

ProjectChars ==
  {c \in Chars : IsProjectChar(c)}

TagChars ==
  {c \in Chars : IsTagChar(c)}

\* (?P<todo>[^\:\+\n]*[^\:\+\ ]) at position p: the index of its last
\* character, 0 when it does not match.
TodoEnd(s, p) ==
  LET e    == RunEnd(s, p, TodoChars)
      cand == {q \in p..e : IsTodoLast(s[q])}
                \cup {q \in {e + 1} : q <= Len(s) /\ s[q] = "\n"}
  IN  IF cand = {} THEN 0 ELSE MaxOf(cand)

\* (?P<tags>(?:\ \:[A-Z\_\d]+)*) after position r: the tag words, in the
\* order of the text, and the index of the last character matched.
RECURSIVE TagsFrom(_, _, _)
TagsFrom(s, r, acc) ==
  LET te == RunEnd(s, r + 3, TagChars)
  IN  IF LitAt(s, r + 1, << " ", ":" >>) /\ te >= r + 3
      THEN TagsFrom(s, te, Append(acc, SubSeq(s, r + 3, te)))
      ELSE [words |-> acc, end |-> r]

\* The groups of a failed match.
NoMatch ==
  [ok |-> FALSE, alt |-> 0, later |-> FALSE, priority |-> None,
   due_date |-> << >>, creation_date |-> << >>, todo |-> << >>,
   project_name |-> << >>, project_seq |-> << >>, tags |-> << >>, end |-> 0]

\* (?:\ \+(?P<project_name>[^\s\#]+) ...)? after position q: the index of
\* the last character of the name, q when there is no project.
ProjectEnd(s, q) ==
  IF LitAt(s, q + 1, << " ", "+" >>) /\ RunEnd(s, q + 3, ProjectChars) >= q + 3
  THEN RunEnd(s, q + 3, ProjectChars)
  ELSE q

\* (?:\#(?P<project_seq>\d+))? after the project name that ends at ne: the
\* index of the last digit, ne when there is no number (or no project).
SeqEnd(s, q, ne) ==
  IF ne > q /\ LitAt(s, ne + 1, << "#" >>) /\ RunEnd(s, ne + 2, DigitSet) >= ne + 2
  THEN RunEnd(s, ne + 2, DigitSet)
  ELSE ne

\* The groups g with the tags tg matched last.
WithTags(g, tg) ==
  [g EXCEPT !.tags = tg.words, !.end = tg.end]

\* The groups of a match whose description is s[p..q], whose project name
\* ends at ne and whose project number ends at se.
Groups(s, p, g, q, ne, se) ==
  WithTags([g EXCEPT !.ok = TRUE, !.alt = 1,
                     !.todo = SubSeq(s, p, q),
                     !.project_name =
                        IF ne > q THEN SubSeq(s, q + 3, ne) ELSE << >>,
                     !.project_seq =
                        IF se > ne THEN SubSeq(s, ne + 2, se) ELSE << >>],
           TagsFrom(s, se, << >>))

\* What follows the description s[p..q] (q = 0: no description matched).
AfterTodo(s, p, g, q) ==
  IF q = 0 THEN NoMatch
  ELSE Groups(s, p, g, q, ProjectEnd(s, q), SeqEnd(s, q, ProjectEnd(s, q)))

\* The description and what follows it, the groups in front of it being g.
MatchTodo(s, p, g) ==
  AfterTodo(s, p, g, TodoEnd(s, p))

\* An optional group: the match with the group when there is one, else the
\* match without it (backtracking).
FirstOk(with, without) ==
  IF with.ok THEN with ELSE without

\* (?:(?P<creation_date>...)\ )? : taken when present, given up when the
\* rest does not match with it.
MatchCreation(s, p, g) ==
  FirstOk(IF DateAt(s, p) /\ LitAt(s, p + 10, << " " >>)
          THEN MatchTodo(s, p + 11,
                         [g EXCEPT !.creation_date = SubSeq(s, p, p + 9)])
          ELSE NoMatch,
          MatchTodo(s, p, g))

\* (?:\.(?P<due_date>...)\ )?
MatchDue(s, p, g) ==
  FirstOk(IF LitAt(s, p, << "." >>) /\ DateAt(s, p + 1)
               /\ LitAt(s, p + 11, << " " >>)
          THEN MatchCreation(s, p + 12,
                             [g EXCEPT !.due_date = SubSeq(s, p + 1, p + 10)])
          ELSE NoMatch,
          MatchCreation(s, p, g))

\* (?:\((?P<priority>[A-Z])\)\ )?
MatchPriority(s, p, g) ==
  FirstOk(IF p + 3 <= Len(s) /\ s[p] = "(" /\ IsUpper(s[p + 1])
               /\ s[p + 2] = ")" /\ s[p + 3] = " "
          THEN MatchDue(s, p + 4, [g EXCEPT !.priority = s[p + 1]])
          ELSE NoMatch,
          MatchDue(s, p, g))

\* (?P<later>\;\ )?
MatchLater(s, g) ==
  FirstOk(IF LitAt(s, 1, << ";", " " >>)
          THEN MatchPriority(s, 3, [g EXCEPT !.later = TRUE])
          ELSE NoMatch,
          MatchPriority(s, 1, g))

\* The second alternative, ^(?P<comment>\;\;).*
MatchComment(s) ==
  IF LitAt(s, 1, << ";", ";" >>)
  THEN [NoMatch EXCEPT !.ok = TRUE, !.alt = 2,
                       !.end = RunEnd(s, 3, Chars \ {"\n"})]
  ELSE NoMatch

\* match(TODO_PATTERN, s).  The second alternative is tried only when the
\* first fails.
TODO_PATTERN(s) ==
  FirstOk(MatchLater(s, NoMatch), MatchComment(s))

(***************************************************************************)
(* make_todo and TodoTask.__init__                                         *)
(***************************************************************************)
OVERDUE ==
  << "O", "V", "E", "R", "D", "U", "E" >>

LATER ==
  << "L", "A", "T", "E", "R" >>

WAITING ==
  << "W", "A", "I", "T", "I", "N", "G" >>

\* The marker in front of a comment line, ";; "
CommentMark ==
  << ";", ";", " " >>

\* int(digits)
RECURSIVE StrToInt(_)
StrToInt(s) ==
  IF s = << >> THEN 0
  ELSE StrToInt(SubSeq(s, 1, Len(s) - 1)) * 10 + DigitVal(s[Len(s)])

\* str(n) for n >= 0
RECURSIVE IntToStr(_)
IntToStr(n) ==
  IF n < 10 THEN << Digits[n + 1] >>
  ELSE IntToStr(n \div 10) \o << Digits[(n % 10) + 1] >>

\* The words of a sequence of tags, each as make_todo writes it.
RECURSIVE TagText(_)
TagText(tagSeq) ==
  IF tagSeq = << >> THEN << >>
  ELSE (IF Strip(Head(tagSeq)) # << >>
        THEN << " ", ":" >> \o StrUpper(Strip(Head(tagSeq))) ELSE << >>)
       \o TagText(Tail(tagSeq))

\* make_todo raises RuntimeError("Empty todo task")
EmptyTodo(todo) ==
  Strip(todo) = << >>

\* make_todo: the canonical text.  tagSeq is the tag set in the order in
\* which the set is iterated; creation_date is always a date here.
make_todo(todo, due_date, priority, creation_date, project_name, project_seq, tagSeq) ==
  (IF \E i \in 1..Len(tagSeq) : tagSeq[i] \in {LATER, WAITING}
   THEN << ";", " " >> ELSE << >>)
  \o (IF priority # None /\ IsUpper(priority)
      THEN << "(", priority, ")", " " >> ELSE << >>)
  \o (IF due_date # NoDate
      THEN << "." >> \o Strftime_y_m_d(due_date) \o << " " >> ELSE << >>)
  \o (IF creation_date # NoDate
      THEN Strftime_y_m_d(creation_date) \o << " " >> ELSE << >>)
  \o Capitalize(todo)
  \o (IF project_name # << >>
      THEN << " ", "+" >> \o project_name
             \o (IF project_seq # 0
                 THEN << "#" >> \o IntToStr(project_seq) ELSE << >>)
      ELSE << >>)
  \o TagText(tagSeq)

\* Priority escalation with the A and B exemption forgotten.
Prioritize_NoExemption(priority, tags, due, nw) ==
  IF OVERDUE \in tags THEN "A"
  ELSE IF due # NoDate /\ WithinUrgentTime(due, nw) THEN "C"
  ELSE priority

\* The priority of a task: priority is the one of the text, tags the tags
\* of the text and the derived OVERDUE, due the due date.
Prioritize(priority, tags, due, nw) ==
  IF OVERDUE \in tags THEN "A"
  ELSE IF due # NoDate /\ WithinUrgentTime(due, nw)
            /\ priority # "A" /\ priority # "B"
       THEN "C"
  ELSE priority

\* A tag set in the order in which iterating the set yields it: ord lists
\* the tags in the order the current process iterates sets of them.
TagsInOrder(tags, ord) ==
  SelectSeq(ord, LAMBDA t : t \in tags)

\* The fields of a task that was not constructed (an exception was raised).
NoTask ==
  [exc |-> "none", comment |-> FALSE, later |-> FALSE, priority |-> None,
   due_date |-> NoDate, creation_date |-> NoDate, todo |-> << >>,
   project_name |-> << >>, project_seq |-> 0, tags |-> {}, text |-> << >>]

\* The task t with its text made for the iteration order ord of its tags
\* (self.text = self.make_todo(), the loop over self.tags).
WithOrder(t, ord) ==
  IF t.exc = "none" /\ ~t.comment
  THEN [t EXCEPT !.text = make_todo(t.todo, t.due_date, t.priority,
                                    t.creation_date, t.project_name,
                                    t.project_seq, TagsInOrder(t.tags, ord))]
  ELSE t

\* Lines 76 and 122: RuntimeError("Empty todo task") when the description
\* is empty, else the task with its text.
WithText(t, ord) ==
  IF EmptyTodo(t.todo) THEN [NoTask EXCEPT !.exc = "RuntimeError"]
  ELSE WithOrder(t, ord)

\* Lines 53 to 76: the task of the groups tm, the dates due and cre, and
\* the tags tags1 of the text with the derived OVERDUE.
TaskOfTags(tm, due, cre, tags1, nw, ord) ==
  WithText([exc |-> "none", comment |-> FALSE,
            later |-> tm.later \/ (tags1 \cap {LATER, WAITING} # {}),
            priority |-> Prioritize(tm.priority, tags1, due, nw),
            due_date |-> due, creation_date |-> cre,
            todo |-> Capitalize(tm.todo),
            project_name |-> tm.project_name,
            project_seq |-> StrToInt(tm.project_seq),
            tags |-> IF tm.later THEN tags1 \cup {LATER} ELSE tags1,
            text |-> << >>],
           ord)

\* Lines 48 to 61: strptime raises ValueError for a date that is no date of
\* the calendar; a match of the second alternative has no description, and
\* capitalize raises AttributeError.
TaskOfDates(tm, due, cre, nw, ord) ==
  IF tm.due_date # << >> /\ ~ValidDate(due)
  THEN [NoTask EXCEPT !.exc = "ValueError"]
  ELSE IF tm.creation_date # << >> /\ ~ValidDate(cre)
  THEN [NoTask EXCEPT !.exc = "ValueError"]
  ELSE IF tm.alt = 2 THEN [NoTask EXCEPT !.exc = "AttributeError"]
  ELSE TaskOfTags(tm, due, cre,
                  Range(tm.tags)
                    \cup (IF due # NoDate /\ DateBeforeNow(due, nw)
                          THEN {OVERDUE} ELSE {}),
                  nw, ord)

\* Lines 45 to 59: no match raises RuntimeError; the dates of the groups.
TaskOfMatch(tm, nw, ord) ==
  IF ~tm.ok THEN [NoTask EXCEPT !.exc = "RuntimeError"]
  ELSE TaskOfDates(tm,
                   IF tm.due_date # << >> THEN DateFields(tm.due_date)
                   ELSE NoDate,
                   IF tm.creation_date # << >>
                   THEN DateFields(tm.creation_date) ELSE nw.date,
                   nw, ord)

\* Lines 33 to 45, line being the stripped line.
TaskOfLine(line, comment, nw, ord) ==
  IF comment \/ StartsWith(line, CommentMark)
  THEN [NoTask EXCEPT !.comment = TRUE,
                      !.text = IF StartsWith(line, CommentMark) THEN line
                               ELSE CommentMark \o line]
  ELSE TaskOfMatch(TODO_PATTERN(line), nw, ord)

\* TodoTask(line, comment): the constructed task, or the exception raised
\* (field exc).  nw is what datetime.now() returns; ord is the iteration
\* order of tag sets.  A task's later flag is FALSE where the code has None.
TodoTask(line0, comment, nw, ord) ==
  TaskOfLine(Strip(line0), comment, nw, ord)

\* __hash__, which __eq__ compares: (due_date, todo.strip().lower()), or
\* (due_date, text) for a task without description.
TaskKey(t) ==
  << t.due_date, IF t.todo # << >> THEN StrLower(Strip(t.todo)) ELSE t.text >>

(***************************************************************************)
(* The store: get_tasks, list, and the sort of add.                        *)
(***************************************************************************)
\* set.add that adds whatever is in the set.
SetAdd_Always(S, t) ==
  S \cup {t}

\* set.add: an element equal (__eq__, that is, same __hash__) to one in the
\* set is not added; the one in the set stays.
SetAdd(S, t) ==
  IF \E u \in S : TaskKey(u) = TaskKey(t) THEN S ELSE S \cup {t}

\* The body of the loop of get_tasks for each line of the file: the line
\* constructed as a task, or as a comment when that raises RuntimeError; any
\* other exception stays (field exc).  The texts are made by get_tasks.
LineTasks(lines, nw) ==
  [i \in 1..Len(lines) |->
     LET t == TodoTask(lines[i], FALSE, nw, << >>)
     IN  IF t.exc = "RuntimeError"
         THEN TodoTask(lines[i], TRUE, nw, << >>)
         ELSE t]

\* get_tasks: the tasks of the lines (LineTasks), each added to the set with
\* its text made for the order ord; an exception ends get_tasks (field exc).
RECURSIVE get_tasks(_, _, _)
get_tasks(ts, ord, acc) ==
  IF ts = << >> THEN [exc |-> "none", todos |-> acc]
  ELSE IF Head(ts).exc = "none"
       THEN get_tasks(Tail(ts), ord, SetAdd(acc, WithOrder(Head(ts), ord)))
       ELSE [exc |-> Head(ts).exc, todos |-> {}]

\* sorted(tasks, key = lambda x: x.text)
RECURSIVE Sorted(_)
Sorted(S) ==
  IF S = {} THEN << >>
  ELSE LET t == CHOOSE x \in S : \A y \in S : ~StrLess(y.text, x.text)
       IN  << t >> \o Sorted(S \ {t})

\* list that keeps all the tasks whatever the filter.
Filtered_All(tasks, tags) ==
  tasks

\* The tasks list keeps: all of them without a tag filter, else those with
\* a tag of the filter.
Filtered(tasks, tags) ==
  IF tags = {} THEN tasks
  ELSE {t \in tasks : t.tags \cap tags # {}}

TextsOf(seq) ==
  [i \in 1..Len(seq) |-> seq[i].text]

\* All the orders in which a set can be iterated.
RECURSIVE Perms(_)
Perms(S) ==
  IF S = {} THEN {<< >>}
  ELSE UNION {{<< x >> \o q : q \in Perms(S \ {x})} : x \in S}

(***************************************************************************)
(* Inputs.                                                                 *)
(***************************************************************************)
FourDigits(n) ==
  TwoDigits(n \div 100) \o TwoDigits(n % 100)

\* A date as the grammar reads it, YYYY-MM-DD.
IsoDate(dt) ==
  FourDigits(dt.y) \o << "-" >> \o TwoDigits(dt.m) \o << "-" >>
    \o TwoDigits(dt.d)

RECURSIVE AddDays(_, _)
AddDays(dt, n) ==
  IF n = 0 THEN dt ELSE AddDays(NextDay(dt), n - 1)

\* The day before the first day of the clock.
Yesterday ==
  [y |-> 2026, m |-> 11, d |-> 29]

StartDate ==
  NextDay(Yesterday)

WORK ==
  << "W", "O", "R", "K" >>

\* "; "
LaterMark ==
  << ";", " " >>

\* "(B) " and "(D) "
PriorityTexts ==
  { << "(", "B", ")", " " >>, << "(", "D", ")", " " >> }

\* ".YYYY-MM-DD " for yesterday, today, and the days around the end of the
\* urgency window; and ".2026-13-01 ", which is no date of the calendar.
DueTexts ==
  { << "." >> \o IsoDate(AddDays(Yesterday, k)) \o << " " >> :
      k \in {0, 1, URGENT_TIME, URGENT_TIME + 1, URGENT_TIME + 2} }
  \cup { << ".", "2", "0", "2", "6", "-", "1", "3", "-", "0", "1", " " >> }

\* "2026-11-01 "
CreationText ==
  << "2", "0", "2", "6", "-", "1", "1", "-", "0", "1", " " >>

\* "Buy MILK" and "call Bob"
DescriptionTexts ==
  { << "B", "u", "y", " ", "M", "I", "L", "K" >>,
    << "c", "a", "l", "l", " ", "B", "o", "b" >> }

\* " +home#07"
ProjectText ==
  << " ", "+", "h", "o", "m", "e", "#", "0", "7" >>

\* " :WORK", " :OVERDUE", " :WAITING", " :later" and ": 2 liters"
TailTexts ==
  { << " ", ":" >> \o WORK,
    << " ", ":" >> \o OVERDUE,
    << " ", ":" >> \o WAITING,
    << " ", ":", "l", "a", "t", "e", "r" >>,
    << ":", " ", "2", " ", "l", "i", "t", "e", "r", "s" >> }

\* ":bad", "(A) <tab> :X", ";; a note", ";;x" and the empty line
OddLines ==
  { << ":", "b", "a", "d" >>,
    << "(", "A", ")", " ", "\t", " ", ":", "X" >>,
    << ";", ";", " ", "a", " ", "n", "o", "t", "e" >>,
    << ";", ";", "x" >>,
    << >> }

\* The lines given to the parser: every combination of the optional fields.
InputLines ==
  { a \o b \o c \o d \o e \o f \o g :
      a \in {<< >>, LaterMark},
      b \in {<< >>} \cup PriorityTexts,
      c \in {<< >>} \cup DueTexts,
      d \in {<< >>, CreationText},
      e \in DescriptionTexts,
      f \in {<< >>, ProjectText},
      g \in {<< >>} \cup TailTexts }
  \cup OddLines

\* The clock readings at which a line is parsed: the first day at midnight
\* exactly, and later that day.
ParseTimes ==
  { [date |-> StartDate, tod |-> t] : t \in {0, 1} }

(***************************************************************************)
(* State.                                                                  *)
(***************************************************************************)
VARIABLES
  now,        \* datetime.now()
  file,       \* the lines of the backing file (without line terminators)
  pc,         \* where the running invocation is: idle, adding, writing
  todos,      \* the collection of the running invocation
  pending,    \* the sorted texts add writes
  out,        \* the texts list printed
  status,     \* how the last invocation ended: ok, error (1), interrupted (2)
  loaded,     \* what get_tasks returned
  filter,     \* the tag filter of list
  given,      \* the task text add inserted last
  made,       \* the task constructed from it
  before,     \* the file when add started
  persisted,  \* keys of the tasks due ahead that the last add put and wrote
  runs,       \* invocations so far
  last,       \* the step taken last
  line,       \* parser only: the line given
  task,       \* parser only: the task constructed from line
  task2,      \* parser only: the task constructed from task.text
  phase       \* parser only: input, parsed, commented, reparsed

storeVars ==
  << file, pc, todos, pending, out, status, loaded, filter, given,
     made, before, persisted, runs, last >>

parseVars ==
  << line, task, task2, phase >>

vars ==
  << now, file, pc, todos, pending, out, status, loaded, filter, given,
     made, before, persisted, runs, last, line, task, task2, phase >>

\* No invocation has run.
StoreIdle ==
  /\ pc = "idle"
  /\ todos = {}
  /\ pending = << >>
  /\ out = << >>
  /\ status = "none"
  /\ loaded = {}
  /\ filter = {}
  /\ given = << >>
  /\ made = NoTask
  /\ before = << >>
  /\ persisted = {}
  /\ runs = 0
  /\ last = "none"

(***************************************************************************)
(* The parser alone: one line is constructed as a task (TodoTask(l)), made *)
(* a comment when that raised RuntimeError (get_tasks), and the text of    *)
(* the task is constructed as a task again (a line add wrote, loaded).     *)
(***************************************************************************)
InitParse ==
  /\ now \in ParseTimes
  /\ line \in InputLines
  /\ task = NoTask
  /\ task2 = NoTask
  /\ phase = "input"
  /\ file = << >>
  /\ StoreIdle

Parse ==
  /\ phase = "input"
  /\ LET t == TodoTask(line, FALSE, now, << >>)
     IN  \E o \in Perms(t.tags) : task' = WithOrder(t, o)
  /\ phase' = "parsed"
  /\ UNCHANGED << now, line, task2, storeVars >>

Comment ==
  /\ phase = "parsed"
  /\ task.exc = "RuntimeError"
  /\ task' = TodoTask(line, TRUE, now, << >>)
  /\ phase' = "commented"
  /\ UNCHANGED << now, line, task2, storeVars >>

Reparse ==
  /\ phase \in {"parsed", "commented"}
  /\ task.exc = "none"
  /\ LET t == TodoTask(task.text, FALSE, now, << >>)
     IN  \E o \in Perms(t.tags) : task2' = WithOrder(t, o)
  /\ phase' = "reparsed"
  /\ UNCHANGED << now, line, task, storeVars >>

NextParse ==
  \/ Parse
  \/ Comment
  \/ Reparse

SpecParse ==
  InitParse /\ [][NextParse]_vars

(***************************************************************************)
(* The program: invocations of list and add on the backing file, the clock *)
(* advancing between them.  add is taken step by step (load, one insertion *)
(* per input, sort and open, one write per line, close), so that it can be *)
(* interrupted between any two steps.  While add writes, file is what the  *)
(* file holds once the process has ended there.  The variables that record *)
(* an invocation are cleared when the next one starts, and those that      *)
(* record the insertions of add when add opens the file.                   *)
(***************************************************************************)
MaxRuns ==
  2

MaxDays ==
  2

\* ".YYYY-MM-DD " for the day after the first day
DueTomorrow ==
  << "." >> \o IsoDate(NextDay(StartDate)) \o << " " >>

\* "Buy MILK"
BuyMilk ==
  << "B", "u", "y", " ", "M", "I", "L", "K" >>

\* "(D) buy milk :WORK"
BuyMilkWork ==
  << "(", "D", ")", " ", "b", "u", "y", " ", "m", "i", "l", "k",
     " ", ":", "W", "O", "R", "K" >>

\* ".<tomorrow> call Bob"
CallBob ==
  DueTomorrow \o << "c", "a", "l", "l", " ", "B", "o", "b" >>

\* ":bad", which the grammar does not match
Bad ==
  << ":", "b", "a", "d" >>

\* ".2026-13-01 Tax", whose date is no date of the calendar
BadDate ==
  << ".", "2", "0", "2", "6", "-", "1", "3", "-", "0", "1", " ",
     "T", "a", "x" >>

\* "(B) .<tomorrow> pay rent :WORK"
PayRent ==
  << "(", "B", ")", " " >> \o DueTomorrow
    \o << "p", "a", "y", " ", "r", "e", "n", "t", " ", ":", "W", "O", "R", "K" >>

\* The task texts given to add (the -t options).
AddInputs ==
  { BuyMilkWork, CallBob, Bad, BadDate }

\* The file as the first invocation finds it: empty (just created), written
\* by hand, or written by hand with a date that is no date.
InitFiles ==
  { << >>,
    << Bad, PayRent, BuyMilk >>,
    << BuyMilk, BadDate >> }

\* The tag filters given to list (the --tag options); none is the empty set.
Filters ==
  { {}, {WORK} }

\* The orders in which a process iterates the tags of the tasks of the file.
TagOrders ==
  Perms({WORK, OVERDUE})

Init ==
  /\ now = [date |-> StartDate, tod |-> 1]
  /\ file \in InitFiles
  /\ StoreIdle
  /\ line = << >>
  /\ task = NoTask
  /\ task2 = NoTask
  /\ phase = "off"

\* The clock advances to the next day.  The invocations of the program
\* are taken at some time after midnight (tod = 1).
Tick ==
  /\ pc = "idle"
  /\ runs < MaxRuns
  /\ Ordinal(now.date) - Ordinal(StartDate) < MaxDays
  /\ now' = [now EXCEPT !.date = NextDay(now.date)]
  /\ UNCHANGED << storeVars, parseVars >>

\* The tasks of the lines of the file, as get_tasks constructs them now.
FileTasks ==
  LineTasks(file, now)

\* list(tags = args.tags): load, filter, sort, print.  An exception of
\* get_tasks reaches the handler at the top, which exits with 1.
list ==
  /\ pc = "idle"
  /\ runs < MaxRuns
  /\ runs' = runs + 1
  /\ \E o \in TagOrders :
       LET r == get_tasks(FileTasks, o, {})
       IN  IF r.exc = "none"
           THEN /\ loaded' = r.todos
                /\ \E f \in Filters :
                     /\ filter' = f
                     /\ todos' = Filtered(r.todos, f)
                     /\ out' = TextsOf(Sorted(Filtered(r.todos, f)))
                /\ status' = "ok"
                /\ last' = "list"
           ELSE /\ loaded' = {}
                /\ filter' \in Filters
                /\ todos' = {}
                /\ out' = << >>
                /\ status' = "error"
                /\ last' = "raise"
  /\ pending' = << >>
  /\ given' = << >>
  /\ made' = NoTask
  /\ before' = file
  /\ UNCHANGED << now, file, pc, persisted, parseVars >>

\* add(*args.tasks), first step: todos = get_tasks(args.file)
AddLoad ==
  /\ pc = "idle"
  /\ runs < MaxRuns
  /\ runs' = runs + 1
  /\ \E o \in TagOrders :
       LET r == get_tasks(FileTasks, o, {})
       IN  IF r.exc = "none"
           THEN /\ pc' = "adding"
                /\ todos' = r.todos
                /\ loaded' = r.todos
                /\ status' = "running"
                /\ last' = "load"
           ELSE /\ pc' = "idle"
                /\ todos' = {}
                /\ loaded' = {}
                /\ status' = "error"
                /\ last' = "raise"
  /\ before' = file
  /\ pending' = << >>
  /\ out' = << >>
  /\ filter' = {}
  /\ given' = << >>
  /\ made' = NoTask
  /\ UNCHANGED << now, file, persisted, parseVars >>

\* TodoTask(l) now, one for each order in which its tags can be iterated.
TasksOf(l) ==
  LET t == TodoTask(l, FALSE, now, << >>)
  IN  {WithOrder(t, o) : o \in Perms(t.tags)}

\* add, the body of its loop for the next input: the task is constructed
\* and added to the set; RuntimeError skips the input; any other exception
\* reaches the handler at the top, which exits with 1.
AddTask ==
  /\ pc = "adding"
  /\ \E l \in AddInputs :
       \E t \in TasksOf(l) :
             /\ given' = l
             /\ IF t.exc = "none"
                THEN /\ todos' = SetAdd(todos, t)
                     /\ made' = t
                     /\ last' = "insert"
                     /\ UNCHANGED << pc, status >>
                ELSE IF t.exc = "RuntimeError"
                THEN /\ made' = NoTask
                     /\ last' = "skip"
                     /\ UNCHANGED << pc, status, todos >>
                ELSE /\ pc' = "idle"
                     /\ made' = NoTask
                     /\ status' = "error"
                     /\ last' = "raise"
                     /\ UNCHANGED todos
  /\ UNCHANGED << now, file, pending, out, loaded, filter, before, persisted,
                  runs, parseVars >>

\* The task has a due date that is not yet past.
DueAhead(t) ==
  /\ ~t.comment
  /\ t.due_date # NoDate
  /\ ~DateBeforeNow(t.due_date, now)

\* add, after the last of its inputs (it is given one or more): the set is
\* sorted and the file opened for writing, which empties it.  The tasks
\* that add put into the set are those of todos that were not loaded.
AddOpen ==
  /\ pc = "adding"
  /\ last # "load"
  /\ pending' = TextsOf(Sorted(todos))
  /\ file' = << >>
  /\ persisted' = {TaskKey(t) : t \in {u \in todos \ loaded : DueAhead(u)}}
  /\ pc' = "writing"
  /\ given' = << >>
  /\ made' = NoTask
  /\ loaded' = {}
  /\ last' = "open"
  /\ UNCHANGED << now, todos, out, status, filter, before, runs, parseVars >>

\* add: tf.write(f"{t}\n") for the next task
AddWrite ==
  /\ pc = "writing"
  /\ Len(file) < Len(pending)
  /\ file' = Append(file, pending[Len(file) + 1])
  /\ last' = "write"
  /\ UNCHANGED << now, pc, todos, pending, out, status, loaded, filter,
                  given, made, before, persisted, runs, parseVars >>

\* add: tf.close() and return
AddClose ==
  /\ pc = "writing"
  /\ Len(file) = Len(pending)
  /\ pc' = "idle"
  /\ status' = "ok"
  /\ last' = "close"
  /\ UNCHANGED << now, file, todos, pending, out, loaded, filter, given,
                  made, before, persisted, runs, parseVars >>

\* KeyboardInterrupt while add is running: the handler at the top exits
\* with 2.  An interrupted add is the last invocation taken.
Interrupt ==
  /\ pc \in {"adding", "writing"}
  /\ pc' = "idle"
  /\ status' = "interrupted"
  /\ last' = "interrupt"
  /\ runs' = MaxRuns
  /\ UNCHANGED << now, file, todos, pending, out, loaded, filter, given, made,
                  before, persisted, parseVars >>

Next ==
  \/ Tick
  \/ list
  \/ AddLoad
  \/ AddTask
  \/ AddOpen
  \/ AddWrite
  \/ AddClose
  \/ Interrupt

Spec ==
  Init /\ [][Next]_vars

(***************************************************************************)
(* Properties of the parser (SpecParse).                                   *)
(***************************************************************************)
\* What the grammar matched of the line given.
Matched ==
  TODO_PATTERN(Strip(line))

\* A task was constructed from the line by the grammar.
Constructed ==
  /\ phase = "parsed"
  /\ task.exc = "none"
  /\ ~task.comment

\* s occurs in t
Occurs(s, t) ==
  \E i \in 0..(Len(t) - Len(s)) : SubSeq(t, i + 1, i + Len(s)) = s

\* C1: round trip.  The text of a constructed task, constructed as a task
\* again, gives a task with the same key (due date, lower-cased
\* description), the same due date and creation date, and the same text.
C1_RoundTrip ==
  (phase = "reparsed" /\ ~task.comment) =>
     /\ task2.exc = "none"
     /\ TaskKey(task2) = TaskKey(task)
     /\ task2.due_date = task.due_date
     /\ task2.creation_date = task.creation_date
     /\ task2.text = task.text

\* C2: load loses no data.  A line that load turned into a task is either
\* matched by the grammar to its last character, or kept as a comment whose
\* text contains the whole line.
C2_LoadLosesNoData ==
  (phase \in {"parsed", "commented"} /\ task.exc = "none") =>
     \/ (task.comment /\ Occurs(Strip(line), task.text))
     \/ (~task.comment /\ Matched.end = Len(Strip(line)))

\* C4: priority escalation.  With OVERDUE in the tag set the priority is A;
\* else, with a due date less than 7 days after the clock reading and a
\* priority in the text other than A and B, it is C; else it is the priority
\* of the text.
C4_PriorityEscalation ==
  Constructed =>
    LET days   == Ordinal(task.due_date) - Ordinal(now.date)
        urgent == /\ task.due_date # NoDate
                  /\ (days < URGENT_TIME \/ (days = URGENT_TIME /\ now.tod > 0))
    IN  /\ OVERDUE \in task.tags => task.priority = "A"
        /\ (OVERDUE \notin task.tags /\ urgent
              /\ Matched.priority \notin {"A", "B"}) => task.priority = "C"
        /\ (OVERDUE \notin task.tags
              /\ (~urgent \/ Matched.priority \in {"A", "B"}))
             => task.priority = Matched.priority

\* C4 witness: a task due within the window whose priority D became C, and
\* which is not overdue.
C4_Witness ==
  /\ Constructed
  /\ Matched.priority = "D"
  /\ task.priority = "C"
  /\ OVERDUE \notin task.tags

\* C5: OVERDUE by the day.  A line without the tag OVERDUE in its text gets
\* the tag exactly when its due date is a day before the current day.
C5_OverdueByDay ==
  (Constructed /\ OVERDUE \notin Range(Matched.tags)) =>
     (OVERDUE \in task.tags
        <=> (task.due_date # NoDate
               /\ Ordinal(task.due_date) < Ordinal(now.date)))

\* C9 as claimed: the description of the task is the description of the
\* line but for the case of its first character, and the text has it.
C9_FirstCharacterOnly ==
  Constructed =>
     /\ Len(task.todo) = Len(Matched.todo)
     /\ task.todo[1] = UpperChar(Matched.todo[1])
     /\ \A i \in 2..Len(task.todo) : task.todo[i] = Matched.todo[i]
     /\ Occurs(task.todo, task.text)

\* C9 amended: the description of the task is the description of the line
\* with its first character upper-cased and every other character
\* lower-cased, and the text has it so.
C9_CaseOnly ==
  Constructed =>
     /\ Len(task.todo) = Len(Matched.todo)
     /\ task.todo[1] = UpperChar(Matched.todo[1])
     /\ \A i \in 2..Len(task.todo) : task.todo[i] = LowerChar(Matched.todo[i])
     /\ Occurs(task.todo, task.text)

\* C9 witness: a task from a line whose description has an upper-case
\* letter after its first character.
C9_Witness ==
  /\ Constructed
  /\ \E i \in 2..Len(Matched.todo) : IsUpper(Matched.todo[i])

(***************************************************************************)
(* Properties of the program (Spec).                                       *)
(***************************************************************************)
\* The equality key as the specification words it.
EqualityKey(t) ==
  IF t.comment THEN << NoDate, t.text >>
  ELSE << t.due_date, StrLower(Strip(t.todo)) >>

\* C3: deduplication.  The collection, as loaded and after each insertion
\* of add, never holds two tasks with the same equality key (it has as many
\* keys as tasks), and the task add inserted last has its key in the
\* collection.
C3_Deduplication ==
  /\ \A S \in {todos, loaded} :
       Cardinality({EqualityKey(t) : t \in S}) = Cardinality(S)
  /\ last = "insert" => EqualityKey(made) \in {EqualityKey(u) : u \in todos}

\* C3 witness: add inserted a task whose key is the key of a task of the
\* collection with another priority and other tags, and it was not added.
C3_Witness ==
  /\ last = "insert"
  /\ made \notin todos
  /\ \E u \in todos : /\ EqualityKey(u) = EqualityKey(made)
                      /\ u.priority # made.priority
                      /\ u.tags # made.tags

\* The line raises when it is constructed as a task.
Rejected(l) ==
  TodoTask(l, FALSE, now, << >>).exc # "none"

\* C6: a rejected line never raises.  No invocation ends in the handler of
\* exceptions; load keeps each rejected line of the file as a comment
\* without tags whose text is the line after the comment marker; add skips
\* a rejected input and goes on.
C6_RejectedLineNeverRaises ==
  /\ status # "error"
  /\ last \in {"list", "load"} =>
       \A i \in 1..Len(before) :
         Rejected(before[i]) =>
           \E t \in loaded : /\ t.comment
                             /\ t.tags = {}
                             /\ t.text = CommentMark \o Strip(before[i])
  /\ last = "skip" => (pc = "adding" /\ Rejected(given))

C8_AllOrNothing ==
  status = "interrupted" =>
    (file = before \/ file = TextsOf(Sorted(todos)))

\* C10: urgency survives persistence.  A task that add put into the file
\* with a due date ahead is, in every later load, a task with the same key
\* (same due date); OVERDUE with priority A once the due date is past, and
\* of priority A, B or C from 7 days before the due date.
C10_UrgencySurvives ==
  last \in {"list", "load"} =>
    \A k \in persisted :
      \E t \in loaded :
        /\ ~t.comment
        /\ TaskKey(t) = k
        /\ Ordinal(k[1]) < Ordinal(now.date) =>
             (OVERDUE \in t.tags /\ t.priority = "A")
        /\ (Ordinal(k[1]) - Ordinal(now.date)) \in 0..(URGENT_TIME - 1) =>
             t.priority \in {"A", "B", "C"}

====
